---- MODULE Spec2Model ----
(***************************************************************************)
(* Model of database-adv-script/script.py: a straight-line script that     *)
(* opens the SQLite file air_bnb_database.db, ensures the users table,     *)
(* inserts one fixed row, commits, reads the table back, prints it and     *)
(* closes the connection.  The store on disk outlives a run, so the model  *)
(* lets the script be run again and again against the store it left.       *)
(*                                                                         *)
(* The statements are executed by the sqlite3 driver with the semantics    *)
(* the schema of line 10 asks for: INTEGER PRIMARY KEY row ids, a UNIQUE   *)
(* index on email, DDL in autocommit, DML inside an implicit transaction   *)
(* that commit() makes durable.  An exception is never caught by the       *)
(* script, so it ends the process with status 1 at the raising statement.  *)
(***************************************************************************)
EXTENDS Integers, Sequences, FiniteSets, TLC

VARIABLES
    fileExists,   \* disk: air_bnb_database.db exists
    master,       \* disk: the schema table (sqlite_master), a set of table entries
    diskRows,     \* disk: the committed rows of users
    conn,         \* "none" | "open" | "closed": the script's connection object
    pending,      \* rows written in the connection's open transaction, not yet committed
    result,       \* the cursor's result set after the SELECT, in retrieval order
    rows,         \* the script variable rows (line 21)
    i,            \* position of the for loop of line 25 in rows
    stdout,       \* lines written to standard output by this run
    exc,          \* the exception raised in this run, "none" when there is none
    status,       \* "idle" | "running" | "exit0" | "exit1": the process
    pc,           \* the statement the run is at
    starts        \* history: the store as each run found it (one entry per run)

vars == <<fileExists, master, diskRows, conn, pending, result, rows, i,
          stdout, exc, status, pc, starts>>

(* Bounds of the model. *)
MaxRowid == 3
MaxRuns == 3

(* The literals of the script. *)
TableName == "users"
Name == "John Doe"
Email == "mosaproject1@gmail.com"
Header == "Users in the database:"

UsersTable ==
    [name |-> TableName,
     cols |-> <<"id INTEGER PRIMARY KEY", "name TEXT NOT NULL",
                "email TEXT UNIQUE NOT NULL">>]

(* Values other runs or other programs may have left in the store. *)
Names == {Name, "Jane Roe"}
OtherEmails == {"user" \o ToString(k) \o "@x.com" : k \in 1..MaxRowid}
Emails == {Email} \cup OtherEmails
Rowids == 1..MaxRowid
Row == [id : Rowids, name : Names, email : Emails]

Ids(rs) == {r.id : r \in rs}
EmailsOf(rs) == {r.email : r \in rs}

(* The constraints the schema puts on the rows of users. *)
UniqueIds(rs) == \A r, s \in rs : r.id = s.id => r = s
UniqueEmails(rs) == \A r, s \in rs : r.email = s.email => r = s
SatisfiesSchema(rs) == rs \subseteq Row /\ UniqueIds(rs) /\ UniqueEmails(rs)

TableExists == \E t \in master : t.name = TableName

(* What the connection sees: the committed rows and its own transaction. *)
View == diskRows \cup pending

MaxOf(S) == CHOOSE m \in S : \A x \in S : x <= m

(* Mutants of NewRowids: ids counted from 0, and the row count plus one.   *)
NewRowidsZeroBased(rs) ==
    IF rs = {} THEN {0}
    ELSE IF MaxOf(Ids(rs)) < MaxRowid THEN {MaxOf(Ids(rs)) + 1}
    ELSE Rowids \ Ids(rs)
NewRowidsByCount(rs) == {Cardinality(rs) + 1}

(* The row ids the store may assign to a row inserted without an id: 1 in  *)
(* an empty table, the largest id plus one otherwise, and once the largest *)
(* id is the largest possible one, any unused id (none when all are used). *)
NewRowids(rs) ==
    IF rs = {} THEN {1}
    ELSE IF MaxOf(Ids(rs)) < MaxRowid THEN {MaxOf(Ids(rs)) + 1}
    ELSE Rowids \ Ids(rs)

(* All orders in which a set of rows can be returned. *)
Orders(rs) ==
    {s \in [1..Cardinality(rs) -> rs] : \A a, b \in 1..Cardinality(rs) : s[a] = s[b] => a = b}

(* repr() of a str without quotes or escapes, and of a row tuple. *)
ReprStr(s) == "'" \o s \o "'"
Repr(row) ==
    "(" \o ToString(row.id) \o ", " \o ReprStr(row.name) \o ", " \o ReprStr(row.email) \o ")"

(* The tables that satisfy the schema: some ids, a name for each, and an   *)
(* email for each that no other row has.                                   *)
Tables ==
    UNION {{{[id |-> k, name |-> n[k], email |-> e[k]] : k \in I} :
              n \in [I -> Names],
              e \in {f \in [I -> Emails] : \A a, b \in I : f[a] = f[b] => a = b}} :
           I \in SUBSET Rowids}

(* The stores a run can find: no file, an empty file, or a users table. *)
Stores ==
    {[file |-> FALSE, master |-> {}, rows |-> {}],
     [file |-> TRUE, master |-> {}, rows |-> {}]}
    \cup {[file |-> TRUE, master |-> {UsersTable}, rows |-> rs] : rs \in Tables}

Init ==
    /\ \E st \in Stores :
        /\ fileExists = st.file
        /\ master = st.master
        /\ diskRows = st.rows
    /\ conn = "none"
    /\ pending = {}
    /\ result = <<>>
    /\ rows = <<>>
    /\ i = 0
    /\ stdout = <<>>
    /\ exc = "none"
    /\ status = "idle"
    /\ pc = "idle"
    /\ starts = <<>>

(* The process is started (again): python3 script.py. *)
StartRun ==
    /\ pc \in {"idle", "done", "failed"}
    /\ Len(starts) < MaxRuns
    /\ starts' = Append(starts, [file |-> fileExists, master |-> master, rows |-> diskRows])
    /\ conn' = "none"
    /\ pending' = {}
    /\ result' = <<>>
    /\ rows' = <<>>
    /\ i' = 0
    /\ stdout' = <<>>
    /\ exc' = "none"
    /\ status' = "running"
    /\ pc' = "connect"
    /\ UNCHANGED <<fileExists, master, diskRows>>

(* Mutant of Raise: the exception is caught and the script goes on. *)
RaiseAndContinue(e) ==
    /\ exc' = e
    /\ pc' = "commit"
    /\ UNCHANGED <<fileExists, master, diskRows, conn, pending, result, rows, i,
                   stdout, status, starts>>

(* An uncaught exception: the traceback goes to stderr, the process ends   *)
(* with status 1, the open transaction is rolled back with the process,    *)
(* and no statement after the raising one runs (close() included).         *)
Raise(e) ==
    /\ exc' = e
    /\ status' = "exit1"
    /\ pc' = "failed"
    /\ pending' = {}
    /\ UNCHANGED <<fileExists, master, diskRows, conn, result, rows, i, stdout, starts>>

(* line 4: connection = sqlite3.connect('air_bnb_database.db') *)
Connect ==
    /\ pc = "connect"
    /\ fileExists' = TRUE
    /\ conn' = "open"
    /\ pc' = "cursor"
    /\ UNCHANGED <<master, diskRows, pending, result, rows, i, stdout, exc, status, starts>>

(* line 7: cursor = connection.cursor() *)
Cursor ==
    /\ pc = "cursor"
    /\ conn = "open"
    /\ pc' = "create"
    /\ UNCHANGED <<fileExists, master, diskRows, conn, pending, result, rows, i,
                   stdout, exc, status, starts>>

(* Mutant of CreateTable: the table is dropped and created anew. *)
CreateTableDropFirst ==
    /\ pc = "create"
    /\ master' = {UsersTable}
    /\ diskRows' = {}
    /\ pc' = "insert"
    /\ UNCHANGED <<fileExists, conn, pending, result, rows, i, stdout, exc, status, starts>>

(* line 10: CREATE TABLE IF NOT EXISTS users (...), in autocommit *)
CreateTable ==
    /\ pc = "create"
    /\ master' = IF TableExists THEN master ELSE master \cup {UsersTable}
    /\ pc' = "insert"
    /\ UNCHANGED <<fileExists, diskRows, conn, pending, result, rows, i,
                   stdout, exc, status, starts>>

(* line 14: INSERT INTO users (name, email) VALUES ('John Doe', '...') *)
InsertRow ==
    /\ pc = "insert"
    /\ Email \notin EmailsOf(View)
    /\ \E id \in NewRowids(View) :
        pending' = pending \cup {[id |-> id, name |-> Name, email |-> Email]}
    /\ pc' = "commit"
    /\ UNCHANGED <<fileExists, master, diskRows, conn, result, rows, i,
                   stdout, exc, status, starts>>

(* Mutants of InsertDuplicate: INSERT OR IGNORE, and no UNIQUE index. *)
InsertDuplicateIgnored ==
    /\ pc = "insert"
    /\ Email \in EmailsOf(View)
    /\ pc' = "commit"
    /\ UNCHANGED <<fileExists, master, diskRows, conn, pending, result, rows, i,
                   stdout, exc, status, starts>>
InsertDuplicateAdds ==
    /\ pc = "insert"
    /\ Email \in EmailsOf(View)
    /\ \E id \in NewRowids(View) :
        pending' = pending \cup {[id |-> id, name |-> Name, email |-> Email]}
    /\ pc' = "commit"
    /\ UNCHANGED <<fileExists, master, diskRows, conn, result, rows, i,
                   stdout, exc, status, starts>>

(* line 14, the email is already there: UNIQUE constraint failed *)
InsertDuplicate ==
    /\ pc = "insert"
    /\ Email \in EmailsOf(View)
    /\ Raise("IntegrityError")

(* line 14, no row id is left: database or disk is full *)
InsertFull ==
    /\ pc = "insert"
    /\ Email \notin EmailsOf(View)
    /\ NewRowids(View) = {}
    /\ Raise("OperationalError")

Insert == InsertRow \/ InsertDuplicate \/ InsertFull

(* Mutants of Commit: the commit is missing, and the commit overwrites. *)
CommitNothing ==
    /\ pc = "commit"
    /\ pc' = "select"
    /\ UNCHANGED <<fileExists, master, diskRows, conn, pending, result, rows, i,
                   stdout, exc, status, starts>>
CommitReplaces ==
    /\ pc = "commit"
    /\ diskRows' = pending
    /\ pending' = {}
    /\ pc' = "select"
    /\ UNCHANGED <<fileExists, master, conn, result, rows, i, stdout, exc, status, starts>>

(* line 17: connection.commit() *)
Commit ==
    /\ pc = "commit"
    /\ diskRows' = diskRows \cup pending
    /\ pending' = {}
    /\ pc' = "select"
    /\ UNCHANGED <<fileExists, master, conn, result, rows, i, stdout, exc, status, starts>>

(* line 20: cursor.execute("SELECT * FROM users;"), no ORDER BY *)
Select ==
    /\ pc = "select"
    /\ result' \in Orders(View)
    /\ pc' = "fetchall"
    /\ UNCHANGED <<fileExists, master, diskRows, conn, pending, rows, i,
                   stdout, exc, status, starts>>

(* line 21: rows = cursor.fetchall() *)
Fetchall ==
    /\ pc = "fetchall"
    /\ rows' = result
    /\ pc' = "header"
    /\ UNCHANGED <<fileExists, master, diskRows, conn, pending, result, i,
                   stdout, exc, status, starts>>

(* line 24: print("Users in the database:") *)
PrintHeader ==
    /\ pc = "header"
    /\ stdout' = Append(stdout, Header)
    /\ i' = 1
    /\ pc' = "loop"
    /\ UNCHANGED <<fileExists, master, diskRows, conn, pending, result, rows,
                   exc, status, starts>>

(* Mutant of PrintRow: the rows are printed last to first. *)
PrintRowReversed ==
    /\ pc = "loop"
    /\ i <= Len(rows)
    /\ stdout' = Append(stdout, Repr(rows[Len(rows) + 1 - i]))
    /\ i' = i + 1
    /\ UNCHANGED <<fileExists, master, diskRows, conn, pending, result, rows,
                   exc, status, pc, starts>>

(* lines 25-26: for row in rows: print(row) *)
PrintRow ==
    /\ pc = "loop"
    /\ i <= Len(rows)
    /\ stdout' = Append(stdout, Repr(rows[i]))
    /\ i' = i + 1
    /\ UNCHANGED <<fileExists, master, diskRows, conn, pending, result, rows,
                   exc, status, pc, starts>>

(* line 25: the loop is exhausted *)
LoopEnd ==
    /\ pc = "loop"
    /\ i > Len(rows)
    /\ pc' = "close"
    /\ UNCHANGED <<fileExists, master, diskRows, conn, pending, result, rows, i,
                   stdout, exc, status, starts>>

(* line 29: connection.close(), then the script falls off its end *)
Close ==
    /\ pc = "close"
    /\ conn' = "closed"
    /\ status' = "exit0"
    /\ pc' = "done"
    /\ UNCHANGED <<fileExists, master, diskRows, pending, result, rows, i,
                   stdout, exc, starts>>

(* The statements of the script. *)
Step ==
    \/ Connect
    \/ Cursor
    \/ CreateTable
    \/ Insert
    \/ Commit
    \/ Select
    \/ Fetchall
    \/ PrintHeader
    \/ PrintRow
    \/ LoopEnd
    \/ Close

Next == StartRun \/ Step

Spec == Init /\ [][Next]_vars

TypeOK ==
    /\ fileExists \in BOOLEAN
    /\ master \subseteq {UsersTable}
    /\ diskRows \subseteq Row
    /\ pending \subseteq Row
    /\ conn \in {"none", "open", "closed"}
    /\ i \in 0..(MaxRowid + 1)
    /\ exc \in {"none", "IntegrityError", "OperationalError"}
    /\ status \in {"idle", "running", "exit0", "exit1"}
    /\ pc \in {"idle", "connect", "cursor", "create", "insert", "commit", "select",
               "fetchall", "header", "loop", "close", "done", "failed"}
    /\ Len(starts) <= MaxRuns

----------------------------------------------------------------------------
(* Properties.                                                             *)

(* The store as the current run found it. *)
Start == starts[Len(starts)]
(* The row a run against a store without a file writes. *)
FirstRow == [id |-> 1, name |-> Name, email |-> Email]
(* The statements after the commit of line 17. *)
AfterCommit == {"select", "fetchall", "header", "loop", "close", "done"}
(* The statements after the SELECT of line 20. *)
AfterSelect == {"fetchall", "header", "loop", "close", "done"}
(* The first run of a behaviour that began without a store file. *)
FreshFirstRun == Len(starts) = 1 /\ ~starts[1].file
(* A later run of a behaviour that began without a store file. *)
FreshRerun == Len(starts) >= 2 /\ ~starts[1].file

(* C1: a single run against a nonexistent store never fails, is never     *)
(* stuck before its end, and ends with status 0, the file and the users    *)
(* table created, and the table holding exactly the row                    *)
(* (1, 'John Doe', 'mosaproject1@gmail.com').                              *)
C1_FreshRunWritesFirstRow ==
    FreshFirstRun =>
        /\ pc # "failed"
        /\ exc = "none"
        /\ pc # "done" => ENABLED Step
        /\ pc = "done" =>
            /\ status = "exit0"
            /\ fileExists
            /\ master = {UsersTable}
            /\ diskRows = {FirstRow}
            /\ pending = {}
C1_Witness == FreshFirstRun /\ pc = "done" /\ diskRows = {FirstRow}

(* C2: every run after the first against a store that began nonexistent    *)
(* finds exactly the first run's row, never gets past the insert, ends     *)
(* there with IntegrityError and status 1, and leaves the committed table  *)
(* holding exactly that one row.                                           *)
C2_RerunFailsAndKeepsOneRow ==
    FreshRerun =>
        /\ Start.rows = {FirstRow}
        /\ diskRows = {FirstRow}
        /\ pending = {}
        /\ pc \in {"connect", "cursor", "create", "insert", "failed"}
        /\ pc = "insert" => ENABLED InsertDuplicate /\ ~ENABLED InsertRow
        /\ pc = "failed" => exc = "IntegrityError" /\ status = "exit1"
C2_Witness == FreshRerun /\ Len(starts) > 2 /\ pc = "failed" /\ exc = "IntegrityError"

(* C3: in every terminal state of a run, successful or failed, the         *)
(* connection opened at line 4 is closed.                                  *)
C3_ConnectionClosedAtExit == pc \in {"done", "failed"} => conn = "closed"

(* C4: CREATE TABLE IF NOT EXISTS, executed when the users table exists,   *)
(* raises nothing, goes on to the insert, and leaves the schema, the       *)
(* committed rows and the transaction unchanged.                           *)
C4_CreateIdempotent ==
    [][(pc = "create" /\ TableExists) =>
           /\ pc' = "insert"
           /\ exc' = "none"
           /\ master' = master
           /\ diskRows' = diskRows
           /\ pending' = pending]_vars
C4_Witness ==
    /\ pc = "insert"
    /\ Start.master = {UsersTable}
    /\ Cardinality(Start.rows) >= 2
    /\ diskRows = Start.rows

(* C5: in every reachable state no two rows of users, committed or in the  *)
(* open transaction, share an email or an id; and an insert refused for a  *)
(* duplicate email has added no row.                                       *)
C5_UniqueEmailAndId ==
    /\ UniqueEmails(diskRows \cup pending)
    /\ UniqueIds(diskRows \cup pending)
    /\ Cardinality(EmailsOf(diskRows)) = Cardinality(diskRows)
    /\ Cardinality(Ids(diskRows)) = Cardinality(diskRows)
    /\ exc = "IntegrityError" => diskRows = Start.rows /\ pending = {}
C5_Witness ==
    /\ exc = "IntegrityError"
    /\ Len(starts) = 1
    /\ Cardinality(diskRows) >= 2

(* C6: standard output is empty until the header is printed, then the      *)
(* header followed by the rendering of the rows retrieved so far in        *)
(* retrieval order; at the end of a successful run it is the header and    *)
(* one line per row of the table, nothing more.                            *)
C6_OutputIsHeaderThenRows ==
    /\ pc \notin {"loop", "close", "done"} => stdout = <<>>
    /\ pc \in {"loop", "close", "done"} =>
        /\ Len(stdout) >= 1
        /\ stdout[1] = Header
        /\ Len(stdout) = i
        /\ \A k \in 1..(Len(stdout) - 1) : stdout[k + 1] = Repr(rows[k])
        /\ \A k \in 1..(Len(stdout) - 1) :
               rows[k] = FirstRow => stdout[k + 1] = "(1, 'John Doe', 'mosaproject1@gmail.com')"
    /\ pc \in {"close", "done"} =>
        /\ Len(stdout) = 1 + Len(rows)
        /\ Len(rows) = Cardinality(diskRows)
        /\ {rows[k] : k \in 1..Len(rows)} = diskRows
C6_Witness ==
    /\ pc = "done"
    /\ Len(stdout) = 3
    /\ stdout[2] = "(2, 'John Doe', 'mosaproject1@gmail.com')"
    /\ stdout[3] = "(1, 'Jane Roe', 'user1@x.com')"

(* C7: when the SELECT has run, the insert has been committed: nothing is  *)
(* left in the transaction, and the rows read hold a row with the fixed    *)
(* name and email that this run added and that is in the committed table;  *)
(* a finished run has printed it.                                          *)
C7_CommitBeforeRead ==
    pc \in AfterSelect =>
        /\ pending = {}
        /\ \E k \in 1..Len(result) :
            /\ result[k].name = Name
            /\ result[k].email = Email
            /\ result[k] \notin Start.rows
            /\ result[k] \in diskRows
            /\ pc = "done" => rows[k] = result[k] /\ stdout[k + 1] = Repr(result[k])
C7_Witness ==
    /\ pc = "fetchall"
    /\ Len(result) >= 2
    /\ result[Len(result)].email = Email
    /\ result[Len(result)] \in diskRows

(* C8: a run in which a statement raised has stopped there: it is in the   *)
(* failed state with status 1, has committed nothing, read nothing and     *)
(* printed nothing; status 1 means failed, and status 0 occurs only at the *)
(* end of the script, after the close, with nothing raised.                *)
C8_FailStopsRun ==
    /\ exc # "none" =>
        /\ pc = "failed"
        /\ status = "exit1"
        /\ diskRows = Start.rows
        /\ pending = {}
        /\ result = <<>>
        /\ rows = <<>>
        /\ stdout = <<>>
    /\ pc = "failed" <=> status = "exit1"
    /\ pc = "failed" => exc # "none"
    /\ status = "exit0" =>
        /\ pc = "done"
        /\ exc = "none"
        /\ conn = "closed"
        /\ Len(stdout) = 1 + Len(rows)
        /\ diskRows # Start.rows
C8_Witness == pc = "failed" /\ exc = "OperationalError" /\ stdout = <<>>

(* C9: once a run that found no row with the fixed email has committed,    *)
(* the table is the rows it found plus exactly one row, which has the      *)
(* fixed name and email and an id none of the rows found had.              *)
C9_ExactlyOneRowAdded ==
    (pc \in AfterCommit /\ Email \notin EmailsOf(Start.rows)) =>
        /\ Cardinality(diskRows) = Cardinality(Start.rows) + 1
        /\ \E r \in diskRows :
            /\ diskRows = Start.rows \cup {r}
            /\ r \notin Start.rows
            /\ r.name = Name
            /\ r.email = Email
            /\ r.id \notin Ids(Start.rows)
C9_Witness ==
    /\ pc = "done"
    /\ MaxRowid \in Ids(Start.rows)
    /\ Cardinality(diskRows) = Cardinality(Start.rows) + 1

(* C10: no step removes or changes a committed row: the committed rows     *)
(* before a step are all among the committed rows after it.                *)
C10_RowsOnlyGrow == [][diskRows \subseteq diskRows']_vars
C10_Witness ==
    /\ Len(starts) >= 2
    /\ starts[1].rows # {}
    /\ starts[1].rows \subseteq diskRows
    /\ starts[1].rows # diskRows
    /\ pc = "failed"
====
